---- MODULE Spec2Model ----
(***************************************************************************)
(* Model of CAM2API/views.py: the camera list / by-id / geo-query views,   *)
(* the filter_cameras predicate engine and the application token views.    *)
(*                                                                         *)
(* Encoding of values                                                      *)
(*   - a Camera row is a record; the Camera table is the sequence          *)
(*     `cameras` (rows in the order the store returns them);               *)
(*   - coordinates, framerates and resolutions are whole numbers, so a     *)
(*     float is modelled by the integer it equals;                         *)
(*   - a datetime is a number of half days: midnight of day d is 2*d and   *)
(*     noon of day d is 2*d+1 (day 1 is 01/01/2017);                       *)
(*   - a distance is carried as its square (Dist2), which orders and       *)
(*     compares exactly like the distance itself.                          *)
(***************************************************************************)
EXTENDS Integers, Sequences, FiniteSets, TLC

VARIABLES cameras, retrieval_models, next_retrieval_id, applications, response

vars == <<cameras, retrieval_models, next_retrieval_id, applications, response>>

-----------------------------------------------------------------------------
(* Bounds of the model *)

\* largest number of Camera rows a drawn collection holds
MaxCameras == 3
\* largest number of query parameters of a list request
MaxParams == 2
\* largest number of query parameters of a geo-query request: the candidates a
\* narrowing leaves are a sub-sequence of the store, and the stores drawn are
\* the sequences of at most MaxCameras cameras, so every candidate sequence is
\* drawn without a parameter
MaxQueryParams == 0
\* largest primary key the store hands to a retrieval model
MaxRetrievalId == 3
\* largest number of registered applications
MaxApps == 3

-----------------------------------------------------------------------------
(* Camera rows the requests are drawn from *)

CameraFields ==
  {"camera_id", "city", "state", "country", "camera_type", "lat", "lng",
   "lat_lng", "framerate", "source", "resolution_w", "resolution_h",
   "is_video", "outdoors", "traffic", "inactive", "date_added", "last_updated"}

CameraPool ==
  { [camera_id |-> 1, city |-> "West Lafayette", state |-> "IN", country |-> "USA",
     camera_type |-> "ip", lat |-> 1, lng |-> 1, lat_lng |-> <<1, 1>>,
     framerate |-> 1, source |-> "google", resolution_w |-> 1, resolution_h |-> 1,
     is_video |-> TRUE, outdoors |-> TRUE, traffic |-> FALSE, inactive |-> FALSE,
     date_added |-> 2, last_updated |-> 2],
    [camera_id |-> 2, city |-> "West Lafayette", state |-> "IN", country |-> "USA",
     camera_type |-> "non_ip", lat |-> 2, lng |-> 1, lat_lng |-> <<2, 1>>,
     framerate |-> 3, source |-> "opentopia", resolution_w |-> 2, resolution_h |-> 3,
     is_video |-> FALSE, outdoors |-> TRUE, traffic |-> TRUE, inactive |-> FALSE,
     date_added |-> 3, last_updated |-> 5],
    [camera_id |-> 3, city |-> "Chicago", state |-> "IL", country |-> "USA",
     camera_type |-> "ip", lat |-> 1, lng |-> 2, lat_lng |-> <<1, 2>>,
     framerate |-> 2, source |-> "google", resolution_w |-> 3, resolution_h |-> 2,
     is_video |-> TRUE, outdoors |-> FALSE, traffic |-> TRUE, inactive |-> TRUE,
     date_added |-> 4, last_updated |-> 4],
    [camera_id |-> 4, city |-> "Chicago", state |-> "IL", country |-> "CA",
     camera_type |-> "non_ip", lat |-> 3, lng |-> 3, lat_lng |-> <<3, 3>>,
     framerate |-> 2, source |-> "opentopia", resolution_w |-> 2, resolution_h |-> 1,
     is_video |-> FALSE, outdoors |-> FALSE, traffic |-> FALSE, inactive |-> TRUE,
     date_added |-> 5, last_updated |-> 5] }

-----------------------------------------------------------------------------
(* Query parameters: names and the value tokens requests are drawn from *)

ExactParams == {"city", "state", "country", "camera_type", "source"}

FloatParams == {"lat", "lat_min", "lat_max", "lng", "lng_min", "lng_max",
                "framerate", "framerate_min", "framerate_max"}

IntParams == {"resolution_w", "resolution_w_min", "resolution_w_max",
              "resolution_h", "resolution_h_min", "resolution_h_max", "id"}

FlagParams == {"video", "outdoors", "traffic", "inactive"}

DateParams == {"added_before", "added_after", "updated_before", "updated_after"}

RecognizedParams ==
  ExactParams \cup FloatParams \cup IntParams \cup FlagParams \cup DateParams

UnknownParams == {"format"}

NumberTokens == {"1", "2.0", "3", "abc"}

FlagTokens == {"True", "true", "t", "TRUE", "T",
               "False", "false", "f", "FALSE", "F", "yes"}

DateTokens == {"01/01/2017", "01/02/2017", "2017-01-02"}

ParamValues(param) ==
  CASE param = "city" -> {"West Lafayette", "Chicago"}
    [] param = "state" -> {"IN", "IL"}
    [] param = "country" -> {"USA", "CA"}
    [] param = "camera_type" -> {"ip", "non_ip"}
    [] param = "source" -> {"google", "opentopia"}
    [] param \in FloatParams \cup IntParams -> NumberTokens
    [] param \in FlagParams -> FlagTokens
    [] param \in DateParams -> DateTokens
    [] OTHER -> {"json"}

\* one entry of the mapping: <<name, value>>
Entries ==
  UNION { {<<p, v>> : v \in ParamValues(p)} : p \in RecognizedParams \cup UnknownParams }

\* the mappings of n entries, each as the sequence of its entries in iteration
\* order (a mapping holds a name once)
QueryParamsOfLen(n) ==
  {qp \in [1..n -> Entries] : \A i, j \in 1..n : qp[i][1] = qp[j][1] => i = j}

-----------------------------------------------------------------------------
(* Python conversions used by filter_cameras *)

\* float(value): the number, or ValueError
float(value) ==
  CASE value = "1" -> [exc |-> "", val |-> 1]
    [] value = "2.0" -> [exc |-> "", val |-> 2]
    [] value = "3" -> [exc |-> "", val |-> 3]
    [] OTHER -> [exc |-> "ValueError", val |-> 0]

\* int(value): a string with a decimal point is no integer literal
int(value) ==
  CASE value = "1" -> [exc |-> "", val |-> 1]
    [] value = "3" -> [exc |-> "", val |-> 3]
    [] OTHER -> [exc |-> "ValueError", val |-> 0]

\* datetime.datetime.strptime(value, "%m/%d/%Y"): midnight of that day
strptime(value) ==
  CASE value = "01/01/2017" -> [exc |-> "", val |-> 2]
    [] value = "01/02/2017" -> [exc |-> "", val |-> 4]
    [] OTHER -> [exc |-> "ValueError", val |-> 0]

-----------------------------------------------------------------------------
(* filter_cameras *)

\* QuerySet.filter(field=v), filter(field__gte=v), filter(field__lte=v)
QuerySet_filter_strict(qs, field, lookup, v) ==
  SelectSeq(qs, LAMBDA c : CASE lookup = "exact" -> c[field] = v
                             [] lookup = "gte" -> c[field] > v
                             [] lookup = "lte" -> c[field] <= v)

QuerySet_filter(qs, field, lookup, v) ==
  SelectSeq(qs, LAMBDA c : CASE lookup = "exact" -> c[field] = v
                             [] lookup = "gte" -> c[field] >= v
                             [] lookup = "lte" -> c[field] <= v)

\* a step of the loop: the narrowed queryset, or the exception raised
Narrowed(qs) == [exc |-> "", cameras |-> qs]

Raised(exc) == [exc |-> exc, cameras |-> <<>>]

\* cameras.filter(field<lookup> = conv(value)) for a converted value
filter_converted(qs, field, lookup, conv) ==
  IF conv.exc # "" THEN Raised(conv.exc)
  ELSE Narrowed(QuerySet_filter(qs, field, lookup, conv.val))

\* the membership tests of a flag parameter's value
flag_of_no_t(value) ==
  IF value \in {"True", "true"} THEN "True"
  ELSE IF value \in {"False", "false", "f"} THEN "False"
  ELSE "None"

flag_of(value) ==
  IF value \in {"True", "true", "t"} THEN "True"
  ELSE IF value \in {"False", "false", "f"} THEN "False"
  ELSE "None"

filter_flag(qs, field, value) ==
  CASE flag_of(value) = "True" -> Narrowed(QuerySet_filter(qs, field, "exact", TRUE))
    [] flag_of(value) = "False" -> Narrowed(QuerySet_filter(qs, field, "exact", FALSE))
    [] OTHER -> Narrowed(qs)

\* the body of the loop of filter_cameras for one parameter
filter_param(qs, param, value) ==
  CASE param = "city" -> Narrowed(QuerySet_filter(qs, "city", "exact", value))
    [] param = "state" -> Narrowed(QuerySet_filter(qs, "state", "exact", value))
    [] param = "country" -> Narrowed(QuerySet_filter(qs, "country", "exact", value))
    [] param = "camera_type" -> Narrowed(QuerySet_filter(qs, "camera_type", "exact", value))
    [] param = "lat" -> filter_converted(qs, "lat", "exact", float(value))
    [] param = "lat_min" -> filter_converted(qs, "lat", "gte", float(value))
    [] param = "lat_max" -> filter_converted(qs, "lat", "lte", float(value))
    [] param = "lng" -> filter_converted(qs, "lng", "exact", float(value))
    [] param = "lng_min" -> filter_converted(qs, "lng", "gte", float(value))
    [] param = "lng_max" -> filter_converted(qs, "lng", "lte", float(value))
    [] param = "framerate" -> filter_converted(qs, "framerate", "exact", float(value))
    [] param = "framerate_min" -> filter_converted(qs, "framerate", "gte", float(value))
    [] param = "framerate_max" -> filter_converted(qs, "framerate", "lte", float(value))
    [] param = "source" -> Narrowed(QuerySet_filter(qs, "source", "exact", value))
    [] param = "resolution_w" -> filter_converted(qs, "resolution_w", "exact", int(value))
    [] param = "resolution_w_min" -> filter_converted(qs, "resolution_w", "gte", int(value))
    [] param = "resolution_w_max" -> filter_converted(qs, "resolution_w", "lte", int(value))
    [] param = "resolution_h" -> filter_converted(qs, "resolution_h", "exact", int(value))
    [] param = "resolution_h_min" -> filter_converted(qs, "resolution_h", "gte", int(value))
    [] param = "resolution_h_max" -> filter_converted(qs, "resolution_h", "lte", int(value))
    [] param = "id" -> filter_converted(qs, "camera_id", "exact", int(value))
    [] param = "video" -> filter_flag(qs, "is_video", value)
    [] param = "outdoors" -> filter_flag(qs, "outdoors", value)
    [] param = "traffic" -> filter_flag(qs, "traffic", value)
    [] param = "inactive" -> filter_flag(qs, "inactive", value)
    [] param = "added_before" -> filter_converted(qs, "date_added", "lte", strptime(value))
    [] param = "added_after" -> filter_converted(qs, "date_added", "gte", strptime(value))
    [] param = "updated_before" -> filter_converted(qs, "last_updated", "lte", strptime(value))
    [] param = "updated_after" -> filter_converted(qs, "last_updated", "gte", strptime(value))
    [] OTHER -> Narrowed(qs)

RECURSIVE filter_loop(_, _, _)
\* for param in query_params: ..., from the i-th parameter on
filter_loop(qs, query_params, i) ==
  IF i > Len(query_params) THEN Narrowed(qs)
  ELSE LET step == filter_param(qs, query_params[i][1], query_params[i][2])
       IN IF step.exc # "" THEN step
          ELSE filter_loop(step.cameras, query_params, i + 1)

\* the loop with `return cameras` inside its body
filter_cameras_first_only(all, query_params) ==
  IF Len(query_params) = 0 THEN Narrowed(all)
  ELSE filter_param(all, query_params[1][1], query_params[1][2])

\* filter_cameras(query_params) over Camera.objects.all()
filter_cameras(all, query_params) == filter_loop(all, query_params, 1)

-----------------------------------------------------------------------------
(* Responses *)

NoResponse ==
  [op |-> "", request |-> <<>>, status |-> 0, exc |-> "", candidates |-> <<>>, data |-> <<>>]

\* Response(data, status)
Response(op, request, status, data) ==
  [op |-> op, request |-> request, status |-> status, exc |-> "",
   candidates |-> <<>>, data |-> data]

\* an exception no handler of the framework catches leaves the view
Unhandled(op, request, exc) ==
  [op |-> op, request |-> request, status |-> 500, exc |-> exc,
   candidates |-> <<>>, data |-> <<>>]

-----------------------------------------------------------------------------
(* CameraList.get *)
(* A read-only request is followed for one request: it is answered from the  *)
(* store it finds, while no response is recorded yet.                        *)

\* filter_cameras(self.request.query_params), serialized
CameraList_get_response(all, query_params) ==
  LET filtered_cameras == filter_cameras(all, query_params)
  IN IF filtered_cameras.exc # ""
     THEN Unhandled("CameraList.get", query_params, filtered_cameras.exc)
     ELSE Response("CameraList.get", query_params, 200, filtered_cameras.cameras)

CameraList_get ==
  /\ response = NoResponse
  /\ \E n \in 0..MaxParams : \E query_params \in QueryParamsOfLen(n) :
       response' = CameraList_get_response(cameras, query_params)
  /\ UNCHANGED <<cameras, retrieval_models, next_retrieval_id, applications>>

-----------------------------------------------------------------------------
(* CameraQuery: distances *)

\* the square of location.distance(point), the planar distance of two points;
\* the query point and camera.lat_lng are both pairs <<lat, lng>>
Dist2(location, point) ==
  (location[1] - point[1]) * (location[1] - point[1])
    + (location[2] - point[2]) * (location[2] - point[2])

\* distance * 100 < radius
in_radius_strict(d2, radius) == radius > 0 /\ d2 * 100 * 100 < radius * radius

\* distance * 100 <= radius, for a distance whose square is d2: a distance is
\* never negative, so no distance is within a negative radius
in_radius(d2, radius) == radius >= 0 /\ d2 * 100 * 100 <= radius * radius

RECURSIVE radius_loop(_, _, _, _, _)
\* for camera in cameras: ..., from the i-th camera on
radius_loop(qs, location, radius, i, result) ==
  IF i > Len(qs) THEN result
  ELSE radius_loop(qs, location, radius, i + 1,
                   IF in_radius(Dist2(location, qs[i].lat_lng), radius)
                   THEN Append(result, qs[i]) ELSE result)

\* CameraQuery.radius_query
radius_query(qs, location, radius) == radius_loop(qs, location, radius, 1, <<>>)

-----------------------------------------------------------------------------
(* CameraQuery: the priority queue of count_query *)

\* (distance, camera) < (distance, camera): tuples compare by their first
\* differing item, and a Camera defines equality and no order, so two
\* different cameras at equal distance raise TypeError
tuple_lt(a, b) ==
  IF a[1] # b[1] THEN (IF a[1] < b[1] THEN "True" ELSE "False")
  ELSE IF a[2] = b[2] THEN "False"
  ELSE "TypeError"

Heap(h) == [exc |-> "", heap |-> h]

HeapRaised(exc) == [exc |-> exc, heap |-> <<>>]

RECURSIVE siftdown(_, _, _, _)
\* heapq._siftdown(heap, startpos, pos) carrying newitem; positions count from 0
siftdown(heap, startpos, pos, newitem) ==
  IF pos > startpos
  THEN LET parentpos == (pos - 1) \div 2
           parent == heap[parentpos + 1]
           lt == tuple_lt(newitem, parent)
       IN IF lt = "TypeError" THEN HeapRaised("TypeError")
          ELSE IF lt = "True"
               THEN siftdown([heap EXCEPT ![pos + 1] = parent], startpos, parentpos, newitem)
               ELSE Heap([heap EXCEPT ![pos + 1] = newitem])
  ELSE Heap([heap EXCEPT ![pos + 1] = newitem])

RECURSIVE siftup(_, _, _, _)
\* heapq._siftup(heap, pos) carrying startpos and newitem
siftup(heap, startpos, pos, newitem) ==
  LET endpos == Len(heap)
      leftpos == 2 * pos + 1
      rightpos == leftpos + 1
  IN IF leftpos < endpos
     THEN LET lt == IF rightpos < endpos
                    THEN tuple_lt(heap[leftpos + 1], heap[rightpos + 1])
                    ELSE "True"
              childpos == IF lt = "True" THEN leftpos ELSE rightpos
          IN IF lt = "TypeError" THEN HeapRaised("TypeError")
             ELSE siftup([heap EXCEPT ![pos + 1] = heap[childpos + 1]],
                         startpos, childpos, newitem)
     ELSE siftdown(heap, startpos, pos, newitem)

\* PriorityQueue.put(item): heappush
heappush(heap, item) == siftdown(Append(heap, item), 0, Len(heap), item)

\* PriorityQueue.get(): heappop, the item and the heap left
heappop(heap) ==
  LET lastelt == heap[Len(heap)]
      rest == SubSeq(heap, 1, Len(heap) - 1)
  IN IF Len(rest) = 0 THEN [exc |-> "", item |-> lastelt, heap |-> rest]
     ELSE LET up == siftup([rest EXCEPT ![1] = lastelt], 0, 0, lastelt)
          IN [exc |-> up.exc, item |-> heap[1], heap |-> up.heap]

RECURSIVE put_loop(_, _, _, _)
\* for camera in cameras: result.put((distance, camera))
put_loop(qs, location, i, heap) ==
  IF i > Len(qs) THEN Heap(heap)
  ELSE LET pushed == heappush(heap, <<Dist2(location, qs[i].lat_lng), qs[i]>>)
       IN IF pushed.exc # "" THEN pushed
          ELSE put_loop(qs, location, i + 1, pushed.heap)

RECURSIVE get_loop(_, _, _, _)
\* for i in range(count): ... else: break
get_loop(heap, i, count, result_list) ==
  IF i >= count \/ Len(heap) = 0 THEN Narrowed(result_list)
  ELSE LET got == heappop(heap)
       IN IF got.exc # "" THEN Raised(got.exc)
          ELSE get_loop(got.heap, i + 1, count, Append(result_list, got.item[2]))

\* CameraQuery.count_query
count_query(qs, location, count) ==
  LET result == put_loop(qs, location, 1, <<>>)
  IN IF result.exc # "" THEN Raised(result.exc)
     ELSE get_loop(result.heap, 0, count, <<>>)

-----------------------------------------------------------------------------
(* CameraQuery.get *)

\* the query points and the values of <type>=<value> a geo query is drawn from
Locations == {<<1, 1>>, <<0, 1>>}

QueryValues == {-1, 0, 1, 2, 3, 4, 100, 141, 142}

\* lat, lon, <type>=<value> of the URL
GeoRequests == [location : Locations, query_type : {"radius", "count"}, value : QueryValues]

CameraQuery_get_response(all, query_params, geo) ==
  LET request == [query_params |-> query_params, location |-> geo.location,
                  query_type |-> geo.query_type, value |-> geo.value]
      filtered_cameras == filter_cameras(all, request.query_params)
      result == IF request.query_type = "radius"
                THEN Narrowed(radius_query(filtered_cameras.cameras, request.location,
                                           request.value))
                ELSE count_query(filtered_cameras.cameras, request.location, request.value)
  IN IF filtered_cameras.exc # ""
     THEN Unhandled("CameraQuery.get", request, filtered_cameras.exc)
     ELSE IF result.exc # ""
          THEN [Unhandled("CameraQuery.get", request, result.exc)
                  EXCEPT !.candidates = filtered_cameras.cameras]
          ELSE [Response("CameraQuery.get", request, 200, result.cameras)
                  EXCEPT !.candidates = filtered_cameras.cameras]

CameraQuery_get ==
  /\ response = NoResponse
  /\ \E n \in 0..MaxQueryParams : \E query_params \in QueryParamsOfLen(n) :
       \E geo \in GeoRequests :
         response' = CameraQuery_get_response(cameras, query_params, geo)
  /\ UNCHANGED <<cameras, retrieval_models, next_retrieval_id, applications>>

-----------------------------------------------------------------------------
(* CameraList.post and CameraByID.delete *)

\* convert_data: moves url, or ip and port, under the key retrieval_model
convert_data(data) ==
  IF "url" \in DOMAIN data
  THEN [k \in (DOMAIN data \ {"url"}) \cup {"retrieval_model"} |->
          IF k = "retrieval_model" THEN [url |-> data["url"]] ELSE data[k]]
  ELSE IF "ip" \in DOMAIN data
       THEN LET port == IF "port" \in DOMAIN data THEN data["port"] ELSE 80
            IN [k \in (DOMAIN data \ {"ip", "port"}) \cup {"retrieval_model"} |->
                  IF k = "retrieval_model" THEN [ip |-> data["ip"], port |-> port]
                  ELSE data[k]]
       ELSE data

\* CameraSerializer(data=data).is_valid(): every camera field and the
\* retrieval model are required
CameraSerializer_is_valid(data) ==
  CameraFields \cup {"retrieval_model"} \subseteq DOMAIN data

\* the retrieval model row the serializer creates: a Non_IP row for a url, an
\* IP row for an ip and a port
RetrievalRow(id, retrieval_model) ==
  [id |-> id,
   model |-> IF "url" \in DOMAIN retrieval_model THEN "Non_IP" ELSE "IP",
   fields |-> retrieval_model]

\* the Camera row the serializer creates, which refers to its retrieval model
CameraRow(data, retrieval_id) ==
  [k \in CameraFields \cup {"retrieval_model"} |->
     IF k = "retrieval_model" THEN retrieval_id ELSE data[k]]

\* the requests a create is drawn from: a camera's fields with a url, an ip and
\* a port, an ip alone, a url and an ip, or none of them
RetrievalData ==
  { [url |-> "http://cam/1.jpg"], [ip |-> "10.0.0.1", port |-> 8080],
    [ip |-> "10.0.0.1"], [url |-> "http://cam/1.jpg", ip |-> "10.0.0.1"], <<>> }

PostRequests ==
  { [k \in DOMAIN c \cup DOMAIN r |-> IF k \in DOMAIN r THEN r[k] ELSE c[k]] :
      c \in CameraPool, r \in RetrievalData }

CameraList_post ==
  /\ next_retrieval_id <= MaxRetrievalId
  /\ \E request \in PostRequests :
       LET data == convert_data(request)
       IN IF CameraSerializer_is_valid(data)
          THEN IF \E i \in 1..Len(cameras) : cameras[i].camera_id = data.camera_id
               THEN \* serializer.save() raises: the camera_id is taken
                    /\ response' = Response("CameraList.post", request, 400, "IntegrityError")
                    /\ UNCHANGED <<cameras, retrieval_models, next_retrieval_id>>
               ELSE /\ retrieval_models' = retrieval_models \cup
                         {RetrievalRow(next_retrieval_id, data.retrieval_model)}
                    /\ cameras' = Append(cameras, CameraRow(data, next_retrieval_id))
                    /\ next_retrieval_id' = next_retrieval_id + 1
                    /\ response' = Response("CameraList.post", request, 201,
                                            CameraRow(data, next_retrieval_id))
          ELSE /\ response' = Response("CameraList.post", request, 400, "serializer.errors")
               /\ UNCHANGED <<cameras, retrieval_models, next_retrieval_id>>
  /\ UNCHANGED applications

\* the rows get_object_or_404(Camera, camera_id=cd) looks among
get_camera_by_id(all, cd) == SelectSeq(all, LAMBDA c : c.camera_id = cd)

\* the ids a by-id request is drawn from; 0 is the id of no camera
CameraIds == {c.camera_id : c \in CameraPool} \cup {0}

\* a delete that leaves the retrieval model in the store
retrieval_model_kept(rms, camera) == rms

\* retrieval_model_delete.delete()
retrieval_model_delete(rms, camera) == {r \in rms : r.id # camera.retrieval_model}

\* camera.delete()
camera_delete(all, camera) == SelectSeq(all, LAMBDA c : c # camera)

CameraByID_delete ==
  /\ \E cd \in CameraIds :
       LET found == get_camera_by_id(cameras, cd)
       IN IF Len(found) = 0
          THEN /\ response' = Response("CameraByID.delete", cd, 404, "Not found.")
               /\ UNCHANGED <<cameras, retrieval_models>>
          ELSE /\ retrieval_models' = retrieval_model_delete(retrieval_models, found[1])
               /\ cameras' = camera_delete(cameras, found[1])
               /\ response' = Response("CameraByID.delete", cd, 200, "Camera deleted")
  /\ UNCHANGED <<next_retrieval_id, applications>>

-----------------------------------------------------------------------------
(* RegisterAppView.post and ObtainAppTokenView.post *)

PermissionLevels == {"Basic", "Admin"}

\* the client_secret generated for the n-th application
SecretOf(n) == <<"secret", n>>

RegisterRequests ==
  [app_name : {"app"}, permission_level : PermissionLevels \cup {"Root"}]

\* RegisterAppSerializer(data=data).is_valid()
RegisterAppSerializer_is_valid(data) == data.permission_level \in PermissionLevels

RegisterAppView_post ==
  /\ Cardinality(applications) < MaxApps
  /\ \E request \in RegisterRequests :
       IF RegisterAppSerializer_is_valid(request)
       THEN LET n == Cardinality(applications) + 1
                app == [client_id |-> n, client_secret |-> SecretOf(n),
                        app_name |-> request.app_name,
                        permission_level |-> request.permission_level]
            IN /\ applications' = applications \cup {app}
               /\ response' = Response("RegisterAppView.post", request, 201,
                                       [client_id |-> n, client_secret |-> SecretOf(n)])
       ELSE /\ response' = Response("RegisterAppView.post", request, 400, "serializer.errors")
            /\ UNCHANGED applications
  /\ UNCHANGED <<cameras, retrieval_models, next_retrieval_id>>

\* ObtainAppTokenSerializer(data=data).is_valid(): the pair is the client_id
\* and the client_secret of a registered application
ObtainAppTokenSerializer_is_valid(apps, data) ==
  \E app \in apps : app.client_id = data.client_id /\ app.client_secret = data.client_secret

\* generate_token: the signed payload of the application with that client_id
generate_token(apps, validated_data) ==
  LET app == CHOOSE a \in apps : a.client_id = validated_data.client_id
  IN [signed |-> [client_id |-> app.client_id, permission_level |-> app.permission_level]]

ObtainRequests ==
  [client_id : 1..MaxApps, client_secret : {SecretOf(n) : n \in 1..MaxApps} \cup {<<"guess", 0>>}]

\* a post that generates the token of the client_id whatever the secret
ObtainAppTokenView_post_response_unchecked(apps, data) ==
  IF \E a \in apps : a.client_id = data.client_id
  THEN Response("ObtainAppTokenView.post", data, 201,
                [token |-> generate_token(apps, data), expires_in |-> 60,
                 token_type |-> "JWT"])
  ELSE Response("ObtainAppTokenView.post", data, 400, "serializer.errors")

ObtainAppTokenView_post_response(apps, data) ==
  IF ObtainAppTokenSerializer_is_valid(apps, data)
  THEN Response("ObtainAppTokenView.post", data, 201,
                [token |-> generate_token(apps, data), expires_in |-> 60,
                 token_type |-> "JWT"])
  ELSE Response("ObtainAppTokenView.post", data, 400, "serializer.errors")

ObtainAppTokenView_post ==
  /\ \E request \in ObtainRequests :
       response' = ObtainAppTokenView_post_response(applications, request)
  /\ UNCHANGED <<cameras, retrieval_models, next_retrieval_id, applications>>

-----------------------------------------------------------------------------
(* The service: cameras are created and deleted; applications register and
   obtain tokens *)

Init ==
  /\ cameras = <<>>
  /\ retrieval_models = {}
  /\ next_retrieval_id = 1
  /\ applications = {}
  /\ response = NoResponse

Next ==
  \/ CameraList_post
  \/ CameraByID_delete

Spec == Init /\ [][Next]_vars

NextAuth ==
  \/ RegisterAppView_post
  \/ ObtainAppTokenView_post

SpecAuth == Init /\ [][NextAuth]_vars

-----------------------------------------------------------------------------
(* The stores a read-only request is served from *)

RECURSIVE RowsUpTo(_)
\* sequences of at most n distinct cameras of the pool
RowsUpTo(n) ==
  IF n = 0 THEN {<<>>}
  ELSE LET S == RowsUpTo(n - 1)
       IN S \cup UNION { {Append(s, c) : c \in {x \in CameraPool :
                                            \A i \in 1..Len(s) : s[i] # x}} :
                         s \in {t \in S : Len(t) = n - 1} }

\* the store that holds rows, created in that order, each with a url
StoreOf(rows) ==
  /\ cameras = [i \in 1..Len(rows) |-> CameraRow(rows[i], i)]
  /\ retrieval_models =
       {RetrievalRow(i, [url |-> "http://cam/1.jpg"]) : i \in 1..Len(rows)}
  /\ next_retrieval_id = Len(rows) + 1
  /\ applications = {}
  /\ response = NoResponse

\* read-only requests are served from every store of at most MaxCameras cameras
InitStore == \E rows \in RowsUpTo(MaxCameras) : StoreOf(rows)

NextFilter == CameraList_get

SpecFilter == InitStore /\ [][NextFilter]_vars

NextQuery == CameraQuery_get

SpecQuery == InitStore /\ [][NextQuery]_vars

-----------------------------------------------------------------------------
(* What a filter means, stated per family of parameters *)

\* the values that are a float literal, an integer literal, a MM/DD/YYYY date
FloatLiterals == {"1", "2.0", "3"}

IntLiterals == {"1", "3"}

DateLiterals == {"01/01/2017", "01/02/2017"}

NumberOf(value) == CASE value = "1" -> 1 [] value = "2.0" -> 2 [] value = "3" -> 3

MidnightOf(value) == CASE value = "01/01/2017" -> 2 [] value = "01/02/2017" -> 4

\* <<parameter, field, bound>> of the numeric and date parameters
BoundTable ==
  { <<"lat", "lat", "eq">>, <<"lat_min", "lat", "min">>, <<"lat_max", "lat", "max">>,
    <<"lng", "lng", "eq">>, <<"lng_min", "lng", "min">>, <<"lng_max", "lng", "max">>,
    <<"framerate", "framerate", "eq">>, <<"framerate_min", "framerate", "min">>,
    <<"framerate_max", "framerate", "max">>,
    <<"resolution_w", "resolution_w", "eq">>, <<"resolution_w_min", "resolution_w", "min">>,
    <<"resolution_w_max", "resolution_w", "max">>,
    <<"resolution_h", "resolution_h", "eq">>, <<"resolution_h_min", "resolution_h", "min">>,
    <<"resolution_h_max", "resolution_h", "max">>,
    <<"id", "camera_id", "eq">>,
    <<"added_before", "date_added", "max">>, <<"added_after", "date_added", "min">>,
    <<"updated_before", "last_updated", "max">>, <<"updated_after", "last_updated", "min">> }

BoundRow(param) == CHOOSE row \in BoundTable : row[1] = param

FlagField(param) == IF param = "video" THEN "is_video" ELSE param

WellFormedEntry(e) ==
  /\ e[1] \in FloatParams => e[2] \in FloatLiterals
  /\ e[1] \in IntParams => e[2] \in IntLiterals
  /\ e[1] \in DateParams => e[2] \in DateLiterals

WellFormed(qp) == \A i \in 1..Len(qp) : WellFormedEntry(qp[i])

InBound(x, bound, limit) ==
  CASE bound = "eq" -> x = limit
    [] bound = "min" -> x >= limit
    [] bound = "max" -> x <= limit

\* camera c passes the filter of the well-formed entry e; a flag is matched
\* against the tokens `yes` (filter to TRUE) and `no` (filter to FALSE)
SatisfiesWith(c, e, yes, no) ==
  CASE e[1] \in ExactParams -> c[e[1]] = e[2]
    [] e[1] \in FloatParams \cup IntParams ->
         InBound(c[BoundRow(e[1])[2]], BoundRow(e[1])[3], NumberOf(e[2]))
    [] e[1] \in DateParams ->
         InBound(c[BoundRow(e[1])[2]], BoundRow(e[1])[3], MidnightOf(e[2]))
    [] e[1] \in FlagParams ->
         /\ e[2] \in yes => c[FlagField(e[1])] = TRUE
         /\ e[2] \in no => c[FlagField(e[1])] = FALSE
    [] OTHER -> TRUE

Satisfies(c, e) == SatisfiesWith(c, e, {"True", "true", "t"}, {"False", "false", "f"})

Range(seq) == {seq[i] : i \in 1..Len(seq)}

Orders(n) == {f \in [1..n -> 1..n] : \A i, j \in 1..n : f[i] = f[j] => i = j}

IsList == response.op = "CameraList.get"

IsQuery == response.op = "CameraQuery.get"

-----------------------------------------------------------------------------
(* Claims about filter_cameras, under SpecFilter *)

\* C1: over every collection and every mapping whose values parse, the list
\* request answers 200 with exactly the cameras that pass every recognized
\* filter of the mapping, in the order of the collection; entries with an
\* unrecognized name change nothing; the empty mapping returns the collection.
C1_FilterIsConjunction ==
  (IsList /\ WellFormed(response.request)) =>
    /\ response.status = 200
    /\ response.data =
         SelectSeq(cameras, LAMBDA c :
                     \A i \in 1..Len(response.request) : Satisfies(c, response.request[i]))
    /\ response.data =
         filter_cameras(cameras,
                        SelectSeq(response.request,
                                  LAMBDA e : e[1] \in RecognizedParams)).cameras
    /\ (response.request = <<>> => response.data = cameras)

\* C1 witness: a two-entry mapping with an unrecognized name that narrows the
\* collection to a part of it
C1_Witness ==
  /\ IsList /\ response.status = 200
  /\ Len(response.request) = 2
  /\ \E i \in 1..2 : response.request[i][1] \in UnknownParams
  /\ 0 < Len(response.data) /\ Len(response.data) < Len(cameras)

\* the lower-case form of a flag token
LowerCase(value) ==
  CASE value \in {"True", "true", "TRUE"} -> "true"
    [] value \in {"t", "T"} -> "t"
    [] value \in {"False", "false", "FALSE"} -> "false"
    [] value \in {"f", "F"} -> "f"
    [] OTHER -> value

\* a list request whose last entry is a flag, after entries that parse
EndsWithFlag ==
  /\ IsList /\ Len(response.request) > 0
  /\ response.request[Len(response.request)][1] \in FlagParams
  /\ WellFormed(response.request)

\* the narrowing of the entries before the last one
BeforeLast ==
  filter_cameras(cameras, SubSeq(response.request, 1, Len(response.request) - 1)).cameras

LastEntry == response.request[Len(response.request)]

\* C5 as stated: a flag value is matched case-insensitively, so any casing of
\* "true"/"t" filters to flag = true and any casing of "false"/"f" to flag =
\* false, and any other token leaves the candidates unchanged.
C5_Original_CaseInsensitive ==
  EndsWithFlag =>
    /\ response.status = 200
    /\ response.data =
         SelectSeq(BeforeLast, LAMBDA c :
           SatisfiesWith(c, LastEntry,
                         {v \in FlagTokens : LowerCase(v) \in {"true", "t"}},
                         {v \in FlagTokens : LowerCase(v) \in {"false", "f"}}))

\* C5 amended: exactly the tokens "True", "true", "t" filter to flag = true and
\* exactly "False", "false", "f" to flag = false; every other token, other
\* casings such as "TRUE", "T", "FALSE", "F" included, leaves the candidates
\* unchanged without an error.
C5_FlagTokensExact ==
  EndsWithFlag =>
    /\ response.status = 200
    /\ LastEntry[2] \in {"True", "true", "t"} =>
         response.data = SelectSeq(BeforeLast, LAMBDA c : c[FlagField(LastEntry[1])] = TRUE)
    /\ LastEntry[2] \in {"False", "false", "f"} =>
         response.data = SelectSeq(BeforeLast, LAMBDA c : c[FlagField(LastEntry[1])] = FALSE)
    /\ LastEntry[2] \notin {"True", "true", "t", "False", "false", "f"} =>
         response.data = BeforeLast

\* C5 witness: the token "TRUE" leaves a camera whose flag is false in the result
C5_Witness ==
  /\ EndsWithFlag /\ response.status = 200
  /\ LastEntry[2] = "TRUE"
  /\ \E c \in Range(response.data) : c[FlagField(LastEntry[1])] = FALSE

\* C7 as stated: a list request with a numeric value that does not parse, or a
\* date not in MM/DD/YYYY, ends in a structured validation error (a 400 naming
\* InvalidFilterValue or InvalidDateFormat), never in an unhandled exception.
C7_Original_StructuredError ==
  (IsList /\ ~WellFormed(response.request)) =>
    /\ response.exc = ""
    /\ response.status = 400
    /\ response.data \in {"InvalidFilterValue", "InvalidDateFormat"}

\* C8: over every collection and every mapping of values that parse, the
\* result is the collection restricted to the intersection of the results of
\* the entries applied alone, whatever the order the entries are iterated in.
C8_IntersectionOfSingles ==
  (IsList /\ WellFormed(response.request)) =>
    LET qp == response.request
        n == Len(qp)
        alone(i) == Range(filter_cameras(cameras, <<qp[i]>>).cameras)
    IN /\ response.status = 200
       /\ response.data = SelectSeq(cameras, LAMBDA c : \A i \in 1..n : c \in alone(i))
       /\ \A f \in Orders(n) :
            filter_cameras(cameras, [i \in 1..n |-> qp[f[i]]]) =
              Narrowed(response.data)

\* C8 witness: a _min and a _max bound on one field, whose result is not empty
\* and smaller than the result of either bound alone
C8_Witness ==
  /\ IsList /\ response.status = 200 /\ Len(response.request) = 2
  /\ response.request[1][1] \in FloatParams \cup IntParams
  /\ response.request[2][1] \in FloatParams \cup IntParams
  /\ BoundRow(response.request[1][1])[2] = BoundRow(response.request[2][1])[2]
  /\ {BoundRow(response.request[1][1])[3], BoundRow(response.request[2][1])[3]}
       = {"min", "max"}
  /\ WellFormed(response.request)
  /\ 0 < Len(response.data)
  /\ \A i \in 1..2 :
       Len(response.data) < Len(filter_cameras(cameras, <<response.request[i]>>).cameras)

-----------------------------------------------------------------------------
(* Claims about the geo query, under SpecQuery *)

Dist2Of(c) == Dist2(response.request.location, c.lat_lng)

\* a geo query whose query parameters parse
QueryOf(type) ==
  /\ IsQuery /\ response.request.query_type = type
  /\ WellFormed(response.request.query_params)

Min(a, b) == IF a < b THEN a ELSE b

\* C2 as stated: for every candidate set and every count >= 0 the count query
\* returns min(count, |candidates|) cameras, the nearest ones, in ascending
\* order of distance.
C2_Original_NearestAscending ==
  (QueryOf("count") /\ response.request.value >= 0) =>
    /\ response.status = 200
    /\ Len(response.data) = Min(response.request.value, Len(response.candidates))
    /\ Range(response.data) \subseteq Range(response.candidates)
    /\ \A i, j \in 1..Len(response.data) :
         i < j => Dist2Of(response.data[i]) <= Dist2Of(response.data[j])
    /\ \A c \in Range(response.candidates) \ Range(response.data) :
         \A d \in Range(response.data) : Dist2Of(d) <= Dist2Of(c)

\* two candidates at the same distance from the query point
HasTie ==
  \E i, j \in 1..Len(response.candidates) :
    i < j /\ Dist2Of(response.candidates[i]) = Dist2Of(response.candidates[j])

\* C2 restricted to candidates at pairwise distinct distances, where the
\* statement of C2 holds: the count query fails on ties alone
C2_DistinctDistances == HasTie \/ C2_Original_NearestAscending

\* C3: for every candidate set and every radius >= 0 the radius query answers
\* with exactly the candidates whose distance times 100 is at most the radius,
\* in the order of the candidates; with radius 0 these are the cameras located
\* at the query point.
C3_RadiusThreshold ==
  (QueryOf("radius") /\ response.request.value >= 0) =>
    /\ response.status = 200
    /\ response.candidates = filter_cameras(cameras, response.request.query_params).cameras
    /\ \A c \in Range(response.candidates) :
         c \in Range(response.data) <=>
           100 * 100 * Dist2Of(c) <= response.request.value * response.request.value
    /\ response.data = SelectSeq(response.candidates, LAMBDA c : c \in Range(response.data))
    /\ response.request.value = 0 =>
         \A c \in Range(response.candidates) :
           c \in Range(response.data) <=> c.lat_lng = response.request.location

\* C3 witness: a radius query that returns a farther camera before a nearer one
C3_Witness ==
  /\ QueryOf("radius") /\ response.request.value >= 0 /\ response.status = 200
  /\ \E i, j \in 1..Len(response.data) :
       i < j /\ Dist2Of(response.data[i]) > Dist2Of(response.data[j])
  /\ Len(response.data) < Len(response.candidates)

\* C6 as stated: a geo query with a negative radius fails with InvalidRadius
\* and one with a negative count fails with InvalidCount; neither returns a
\* camera list.
C6_Original_NegativeRejected ==
  (IsQuery /\ WellFormed(response.request.query_params) /\ response.request.value < 0) =>
    /\ response.status = 400
    /\ response.data =
         IF response.request.query_type = "radius" THEN "InvalidRadius" ELSE "InvalidCount"

\* C10 as stated: with candidates at exactly equal distance the count query
\* completes without error and lists equal-distance candidates in their input
\* order.
C10_Original_StableTies ==
  (QueryOf("count") /\ response.request.value >= 0 /\ HasTie) =>
    /\ response.status = 200
    /\ response.exc = ""
    /\ \A i, j \in 1..Len(response.data) :
         (i < j /\ Dist2Of(response.data[i]) = Dist2Of(response.data[j])) =>
           \E k, l \in 1..Len(response.candidates) :
             /\ k < l
             /\ response.candidates[k] = response.data[i]
             /\ response.candidates[l] = response.data[j]

-----------------------------------------------------------------------------
(* Claims about the token view and the store, under Spec *)

IsObtain == response.op = "ObtainAppTokenView.post"

PairValidates ==
  \E app \in applications :
    /\ app.client_id = response.request.client_id
    /\ app.client_secret = response.request.client_secret

\* C4: obtain_token with a pair that does not validate answers 400 and issues
\* no token; with a pair that validates it answers with the token of that
\* application, the lifetime 60 and the token type marker.
C4_TokenOnlyForValidPair ==
  IsObtain =>
    IF PairValidates
    THEN /\ response.status = 201
         /\ response.data.expires_in = 60
         /\ response.data.token_type = "JWT"
         /\ \E app \in applications :
              /\ app.client_secret = response.request.client_secret
              /\ response.data.token.signed =
                   [client_id |-> app.client_id, permission_level |-> app.permission_level]
    ELSE /\ response.status = 400
         /\ response.data = "serializer.errors"

\* C4 witness: the client_id of a registered application with a wrong secret
C4_Witness ==
  /\ IsObtain /\ response.status = 400
  /\ \E app \in applications :
       /\ app.client_id = response.request.client_id
       /\ app.client_secret # response.request.client_secret

\* every camera has its one retrieval model, and every retrieval model its
\* one camera
OwnedRetrievalModels ==
  /\ \A i \in 1..Len(cameras) :
       Cardinality({r \in retrieval_models : r.id = cameras[i].retrieval_model}) = 1
  /\ \A r \in retrieval_models :
       Cardinality({i \in 1..Len(cameras) : cameras[i].retrieval_model = r.id}) = 1

\* a DELETE of cd: an existing camera goes with its retrieval model and the
\* other rows stay; an unknown id answers 404 and changes nothing
DeleteStep ==
  response'.op = "CameraByID.delete" =>
    LET cd == response'.request
        hit == {i \in 1..Len(cameras) : cameras[i].camera_id = cd}
    IN IF hit = {}
       THEN /\ response'.status = 404
            /\ cameras' = cameras /\ retrieval_models' = retrieval_models
       ELSE /\ response'.status = 200
            /\ \A i \in 1..Len(cameras') : cameras'[i].camera_id # cd
            /\ Range(cameras') = Range(cameras) \ {cameras[i] : i \in hit}
            /\ retrieval_models' =
                 {r \in retrieval_models : \A i \in hit : r.id # cameras[i].retrieval_model}

\* C9: after any sequence of create and delete requests every stored camera
\* has exactly one retrieval model and no retrieval model is without its
\* camera; a DELETE of an existing id removes the camera and its retrieval
\* model, a DELETE of an unknown id answers 404 and leaves the store unchanged.
C9_RetrievalModelOwned == [][DeleteStep /\ OwnedRetrievalModels']_vars

\* C9 witness: a camera was deleted and another camera is still stored
C9_Witness ==
  /\ response.op = "CameraByID.delete" /\ response.status = 200
  /\ Len(cameras) > 0
  /\ next_retrieval_id > Len(cameras) + 1

====
